---- MODULE Spec2Model ----
(***************************************************************************)
(* Model of the column classification script (1_Extract_data.py) and of    *)
(* the chart-data construction of BaseFrequencyChart                        *)
(* (data_demo_combine.py).                                                  *)
(*                                                                          *)
(* Text is a sequence of one-character strings, so that regular-expression  *)
(* search, replace, strip and float parsing are computed character by       *)
(* character.  A missing cell (NaN, an empty spreadsheet cell) is the empty  *)
(* sequence.  A table is a record [columns, rows]: the column labels in      *)
(* order and, per row, the cells in column order.                            *)
(***************************************************************************)
EXTENDS Integers, Sequences, FiniteSets, TLC

\* ---------------------------------------------------------------- bounds
MaxRules == 3
MaxMeas == 2

\* ------------------------------------------------------- program constants
InfoColumns == 15

\* ------------------------------------------------------------ text helpers
NaN == <<>>

Range(s) == {s[k] : k \in DOMAIN s}

MinOf(a, b) == IF a <= b THEN a ELSE b

\* the sequences over S of length 0..n whose elements are pairwise distinct
DistinctSeqs(S, n) ==
    {s \in UNION {[1..k -> S] : k \in 0..n} :
        \A a, b \in DOMAIN s : a # b => s[a] # s[b]}

SeqsUpTo(S, n) == UNION {[1..k -> S] : k \in 0..n}

FREQ_EQ == <<"f", "r", "e", "q", "=">>
GHZ == <<"G", "H", "z">>

\* --------------------------------------------------------------- inputs
\* The 15 metadata column labels A..O.
MetaColumns ==
    << <<"A">>, <<"B">>, <<"C">>, <<"D">>, <<"E">>, <<"F">>, <<"G">>, <<"H">>,
       <<"I">>, <<"J">>, <<"K">>, <<"L">>, <<"M">>, <<"N">>, <<"O">> >>

\* Measurement column labels of the raw table: "freq=1GHz", "freq=2GHz", "ch=1".
RawMeasNames ==
    { FREQ_EQ \o <<"1">> \o GHZ,
      FREQ_EQ \o <<"2">> \o GHZ,
      <<"c", "h", "=", "1">> }

\* Patterns of the configuration table: "freq=", "." (any character) and
\* "(" (an unterminated group, which re cannot compile).
PatternSet == { FREQ_EQ, <<".">>, <<"(">> }

\* Output names of the configuration table.
NameSet == { <<"Freq">> }

\* The row index of the raw table.
RawRowIds == {1, 2}

\* The cell of raw-table row r and column c: every cell is distinct, so a
\* projected table shows which source row and column each cell came from.
RawCell(r, c) == <<r, c>>

RawTable(meas) ==
    LET cols == MetaColumns \o meas
    IN  [columns |-> cols,
         rows |-> [r \in RawRowIds |-> [c \in 1..Len(cols) |-> RawCell(r, c)]]]

ConfigRows ==
    SeqsUpTo([pat : PatternSet \cup {NaN}, name : NameSet \cup {NaN}], MaxRules)

\* ------------------------------------------------------- pandas operations
\* Series.dropna().tolist()
DropNa(s) == SelectSeq(s, LAMBDA x : x # NaN)

\* df.iloc[:, :n]
ILocFirstColumns(df, n) ==
    LET k == MinOf(n, Len(df.columns))
    IN  [columns |-> SubSeq(df.columns, 1, k),
         rows |-> [r \in DOMAIN df.rows |-> SubSeq(df.rows[r], 1, k)]]

\* the positions of the columns labelled name, in column order
RECURSIVE PositionsOf(_, _, _)
PositionsOf(cols, name, k) ==
    IF k > Len(cols) THEN <<>>
    ELSE (IF cols[k] = name THEN <<k>> ELSE <<>>) \o PositionsOf(cols, name, k + 1)

\* df[names]: for every requested label, in request order, every column
\* carrying that label
RECURSIVE SelectPositions(_, _)
SelectPositions(cols, names) ==
    IF names = <<>> THEN <<>>
    ELSE PositionsOf(cols, Head(names), 1) \o SelectPositions(cols, Tail(names))

SelectColumns(df, names) ==
    LET pos == SelectPositions(df.columns, names)
    IN  [columns |-> [k \in DOMAIN pos |-> df.columns[pos[k]]],
         rows |-> [r \in DOMAIN df.rows |-> [k \in DOMAIN pos |-> df.rows[r][pos[k]]]]]

\* pd.concat([a, b], axis=1) of two tables that carry the same row index
ConcatAxis1(a, b) ==
    [columns |-> a.columns \o b.columns,
     rows |-> [r \in DOMAIN a.rows |-> a.rows[r] \o b.rows[r]]]

\* ---------------------------------------------------- re, on rule patterns
\* The pattern language of the modelled rules: a literal character matches
\* itself, "." matches any character, "(" opens a group that is never closed.
RegexValid(rule) == "(" \notin Range(rule)

RegexMatchAt(rule, s, k) ==
    /\ k + Len(rule) - 1 <= Len(s)
    /\ \A j \in 1..Len(rule) : rule[j] = "." \/ rule[j] = s[k + j - 1]

\* re.search(rule, s) of a pattern that compiles: a match anywhere in s
RegexSearch(rule, s) == \E k \in 1..(Len(s) + 1) : RegexMatchAt(rule, s, k)

\* ------------------------------------------------------- 1_Extract_data.py
VARIABLES config_rows, df, table_header_3, table_header_2, classified_data,
          reported, files, emitted, idx, pc

\* ----------------------------------- BaseFrequencyChart (data_demo_combine.py)
\* source_columns: the column labels of the table handed to the constructor;
\* self_df: self.df; frequency_values: the freq_val computed for each entry
\* of frequency_labels (NaN where none was computed); step: the position
\* inside __init__; error: the exception that ended it.
VARIABLES source_columns, self_df, frequencies, frequency_labels,
          frequency_values, y_min, y_max, y_axis_min, y_axis_max, interval,
          step, error

\* ---------------------------- create_traces (data_demo_combine.py and
\* data_demo_combined.py).  source_file: the script that runs; chart_class:
\* the class of the chart at hand; set_order: the order in which
\* set(config_numbers) is iterated; config_color_mapping: the dict, as the
\* sequence of its items in insertion order; loop_i: the position of the
\* running loop; a trace carries, besides the arguments of go.Scatter, the
\* index of the row it was built from.
VARIABLES source_file, chart_class, upper_limit_row, lower_limit_row,
          serial_total_count, set_order, config_color_mapping, color_index,
          added_to_legend, traces, loop_i

\* ------------------------------------------------------------- __main__
\* batch: the charts the script is to build, in order; charts: the chart
\* objects constructed so far; figs: the figures generated so far; chart_k:
\* the position in the batch; run: the number of the execution of the
\* script; first_run_figs: the figures of the first execution.
VARIABLES batch, charts, figs, main_pc, chart_k, run, first_run_figs

extract_vars == <<config_rows, df, table_header_3, table_header_2,
                  classified_data, reported, files, emitted, idx, pc>>

chart_vars == <<source_columns, self_df, frequencies, frequency_labels,
                frequency_values, y_min, y_max, y_axis_min, y_axis_max,
                interval, step, error>>

\* the fields of the chart that create_traces only reads
chart_data_vars == <<source_columns, self_df, frequencies, frequency_labels,
                     frequency_values, y_min, y_max, y_axis_min, y_axis_max,
                     interval>>

trace_vars == <<chart_class, upper_limit_row, lower_limit_row,
                serial_total_count, set_order, config_color_mapping,
                color_index, added_to_legend, traces, loop_i>>

main_vars == <<source_file, batch, charts, figs, main_pc, chart_k, run,
               first_run_figs>>

vars == <<extract_vars, chart_vars, trace_vars, main_vars>>

EmptyTable == [columns |-> <<>>, rows |-> <<>>]

\* no chart is under construction
ChartIdle ==
    /\ source_columns = <<>>
    /\ self_df = EmptyTable
    /\ frequencies = <<>>
    /\ frequency_labels = <<>>
    /\ frequency_values = <<>>
    /\ y_min = NaN
    /\ y_max = NaN
    /\ y_axis_min = 0
    /\ y_axis_max = 0
    /\ interval = NaN
    /\ step = "idle"
    /\ error = "none"

\* no create_traces is running
TraceIdle ==
    /\ chart_class = "none"
    /\ upper_limit_row = -1
    /\ lower_limit_row = -1
    /\ serial_total_count = <<>>
    /\ set_order = <<>>
    /\ config_color_mapping = <<>>
    /\ color_index = 0
    /\ added_to_legend = {}
    /\ traces = <<>>
    /\ loop_i = 0

\* no chart script is running
MainIdle ==
    /\ source_file = "none"
    /\ batch = <<>>
    /\ charts = <<>>
    /\ figs = <<>>
    /\ main_pc = "idle"
    /\ chart_k = 0
    /\ run = 0
    /\ first_run_figs = <<>>

\* the classification script is not running
ExtractIdle ==
    /\ config_rows = <<>>
    /\ df = EmptyTable
    /\ table_header_3 = <<>>
    /\ table_header_2 = <<>>
    /\ classified_data = <<>>
    /\ reported = {}
    /\ files = <<>>
    /\ emitted = <<>>
    /\ idx = 0
    /\ pc = "idle"

\* a classification loop without the exception handler
CatchesReError_Missing == FALSE

\* "except re.error" around re.search
CatchesReError == TRUE

\* an inner loop that stops at the first matching column
MatchedColumns_FirstOnly(rule, cols) ==
    LET all == SelectSeq(cols, LAMBDA col : RegexValid(rule) /\ RegexSearch(rule, col))
    IN  IF all = <<>> THEN <<>> ELSE <<Head(all)>>

\* the inner loop over df.columns: the labels that the rule matches
MatchedColumns(rule, cols) ==
    SelectSeq(cols, LAMBDA col : RegexValid(rule) /\ RegexSearch(rule, col))

\* a classification loop that stores a dataset for every rule
StoresDataset_Always(matched_columns) == TRUE

\* "if matched_columns:"
StoresDataset(matched_columns) == matched_columns # <<>>

\* the file name base of the rule at position i of table_header_3
FilenameBase(i, names) == IF i <= Len(names) THEN names[i] ELSE <<"result">>

first_15_columns(d) == ILocFirstColumns(d, InfoColumns)

CombinedData(d, matched_columns) ==
    ConcatAxis1(first_15_columns(d), SelectColumns(d, matched_columns))

InitExtract ==
    /\ config_rows \in ConfigRows
    /\ \E meas \in DistinctSeqs(RawMeasNames, MaxMeas) : df = RawTable(meas)
    /\ table_header_3 = <<>>
    /\ table_header_2 = <<>>
    /\ classified_data = <<>>
    /\ reported = {}
    /\ files = <<>>
    /\ emitted = <<>>
    /\ idx = 0
    /\ pc = "load"
    /\ ChartIdle
    /\ TraceIdle
    /\ MainIdle

\* lines 6-15: the pattern column and the name column, each without its
\* missing cells
LoadConfig ==
    /\ pc = "load"
    /\ table_header_3' = DropNa([k \in DOMAIN config_rows |-> config_rows[k].pat])
    /\ table_header_2' = DropNa([k \in DOMAIN config_rows |-> config_rows[k].name])
    /\ idx' = 1
    /\ pc' = "classify"
    /\ UNCHANGED <<config_rows, df, classified_data, reported, files, emitted, chart_vars,
                   trace_vars, main_vars>>

\* lines 33-44: one iteration of the classification loop
ClassifyRule ==
    /\ pc = "classify"
    /\ idx <= Len(table_header_3)
    /\ LET rule == table_header_3[idx]
           raises == ~RegexValid(rule) /\ df.columns # <<>>
           matched_columns == MatchedColumns(rule, df.columns)
       IN  IF raises /\ ~CatchesReError
           THEN /\ pc' = "aborted"
                /\ UNCHANGED <<classified_data, reported, idx>>
           ELSE /\ reported' = IF raises THEN reported \cup {rule} ELSE reported
                /\ classified_data' =
                       IF StoresDataset(matched_columns)
                       THEN (rule :> matched_columns) @@ classified_data
                       ELSE classified_data
                /\ idx' = idx + 1
                /\ pc' = "classify"
    /\ UNCHANGED <<config_rows, df, table_header_3, table_header_2, files, emitted, chart_vars,
                   trace_vars, main_vars>>

\* the classification loop is exhausted
ClassifyDone ==
    /\ pc = "classify"
    /\ idx > Len(table_header_3)
    /\ idx' = 1
    /\ pc' = "save"
    /\ UNCHANGED <<config_rows, df, table_header_3, table_header_2,
                   classified_data, reported, files, emitted, chart_vars,
                   trace_vars, main_vars>>

\* lines 47-59: one iteration of the save loop
SaveRule ==
    /\ pc = "save"
    /\ idx <= Len(table_header_3)
    /\ LET rule == table_header_3[idx]
       IN  IF rule \in DOMAIN classified_data
           THEN LET filename_base == FilenameBase(idx, table_header_2)
                    combined_data == CombinedData(df, classified_data[rule])
                IN  /\ files' = (filename_base :> combined_data) @@ files
                    /\ emitted' = Append(emitted,
                           [i |-> idx, rule |-> rule, filename |-> filename_base,
                            data |-> combined_data])
           ELSE UNCHANGED <<files, emitted>>
    /\ idx' = idx + 1
    /\ UNCHANGED <<config_rows, df, table_header_3, table_header_2,
                   classified_data, reported, pc, chart_vars,
                   trace_vars, main_vars>>

SaveDone ==
    /\ pc = "save"
    /\ idx > Len(table_header_3)
    /\ pc' = "done"
    /\ UNCHANGED <<config_rows, df, table_header_3, table_header_2,
                   classified_data, reported, files, emitted, idx, chart_vars,
                   trace_vars, main_vars>>

NextExtract == LoadConfig \/ ClassifyRule \/ ClassifyDone \/ SaveRule \/ SaveDone

SpecExtract == InitExtract /\ [][NextExtract]_vars

\* ------------------------------------------------ text of column labels
Digits == {"0", "1", "2", "3", "4", "5", "6", "7", "8", "9"}

DigitChars == <<"0", "1", "2", "3", "4", "5", "6", "7", "8", "9">>

DigitValue(c) == (CHOOSE d \in DOMAIN DigitChars : DigitChars[d] = c) - 1

\* the text p stands in s at position k
IsPrefixAt(p, s, k) ==
    /\ k >= 1
    /\ k + Len(p) - 1 <= Len(s)
    /\ \A j \in 1..Len(p) : s[k + j - 1] = p[j]

\* p in s
Contains(p, s) == \E k \in 1..Len(s) : IsPrefixAt(p, s, k)

\* the length of the longest run of characters of S that starts at position k
RECURSIVE RunLength(_, _, _)
RunLength(s, k, S) ==
    IF k <= Len(s) /\ s[k] \in S THEN 1 + RunLength(s, k + 1, S) ELSE 0

\* freq=([0-9.]+)GHz matched at position p: the length of group 1, 0 when the
\* pattern does not match there.  The greedy run must be the whole run: a
\* shorter one is followed by a digit or a dot, never by "G".
FreqTokenLength(s, p) ==
    IF ~IsPrefixAt(FREQ_EQ, s, p) THEN 0
    ELSE LET n == RunLength(s, p + Len(FREQ_EQ), Digits \cup {"."})
         IN  IF n >= 1 /\ IsPrefixAt(GHZ, s, p + Len(FREQ_EQ) + n) THEN n ELSE 0

\* re.search(r'freq=([0-9.]+)GHz', s): the start of the leftmost match, 0 for None
FreqTokenStart(s) ==
    IF \E p \in 1..Len(s) : FreqTokenLength(s, p) > 0
    THEN CHOOSE p \in 1..Len(s) :
             /\ FreqTokenLength(s, p) > 0
             /\ \A q \in 1..(p - 1) : FreqTokenLength(s, q) = 0
    ELSE 0

\* group(1) of that match
FreqTokenGroup(s) ==
    LET p == FreqTokenStart(s)
    IN  SubSeq(s, p + Len(FREQ_EQ), p + Len(FREQ_EQ) + FreqTokenLength(s, p) - 1)

\* (\d+\.?\d*)GHz matched at position p: the length of group 1, 0 when the
\* pattern does not match there.  Giving back digits of \d+ or \d* never
\* helps: what follows is then a digit, not "G".
GHzNumberLength(s, p) ==
    LET a == RunLength(s, p, Digits)
        dot == p + a <= Len(s) /\ s[p + a] = "."
        b == IF dot THEN RunLength(s, p + a + 1, Digits) ELSE 0
        n == IF dot THEN a + 1 + b ELSE a
    IN  IF a >= 1 /\ IsPrefixAt(GHZ, s, p + n) THEN n ELSE 0

\* re.search(r'(\d+\.?\d*)GHz', s): the start of the leftmost match, 0 for None
GHzNumberStart(s) ==
    IF \E p \in 1..Len(s) : GHzNumberLength(s, p) > 0
    THEN CHOOSE p \in 1..Len(s) :
             /\ GHzNumberLength(s, p) > 0
             /\ \A q \in 1..(p - 1) : GHzNumberLength(s, q) = 0
    ELSE 0

\* group(1) of that match
GHzNumberGroup(s) ==
    LET p == GHzNumberStart(s)
    IN  SubSeq(s, p, p + GHzNumberLength(s, p) - 1)

\* s.replace('GHz', '')
RECURSIVE ReplaceGHz(_)
ReplaceGHz(s) ==
    IF s = <<>> THEN <<>>
    ELSE IF IsPrefixAt(GHZ, s, 1) THEN ReplaceGHz(SubSeq(s, Len(GHZ) + 1, Len(s)))
    ELSE <<Head(s)>> \o ReplaceGHz(Tail(s))

\* s.strip()
RECURSIVE Strip(_)
Strip(s) ==
    IF s = <<>> THEN <<>>
    ELSE IF Head(s) = " " THEN Strip(Tail(s))
    ELSE IF s[Len(s)] = " " THEN Strip(SubSeq(s, 1, Len(s) - 1))
    ELSE s

\* float(s) succeeds.  The decimal grammar of float(): digits with at most
\* one dot and at least one digit.  (Signs, exponents, underscores, "inf"
\* and "nan" do not occur in the modelled labels.)
IsFloatText(s) ==
    /\ \A k \in DOMAIN s : s[k] \in Digits \cup {"."}
    /\ Cardinality({k \in DOMAIN s : s[k] = "."}) <= 1
    /\ \E k \in DOMAIN s : s[k] \in Digits

RECURSIVE NatOf(_)
NatOf(digits) ==
    IF digits = <<>> THEN 0
    ELSE 10 * NatOf(SubSeq(digits, 1, Len(digits) - 1)) + DigitValue(digits[Len(digits)])

RECURSIVE Pow10(_)
Pow10(n) == IF n = 0 THEN 1 ELSE 10 * Pow10(n - 1)

\* float(s) of a text float() accepts, as the fraction <<numerator, denominator>>
FloatOf(s) ==
    LET dots == {k \in DOMAIN s : s[k] = "."}
        frac == IF dots = {} THEN 0 ELSE Len(s) - (CHOOSE k \in dots : TRUE)
    IN  <<NatOf(SelectSeq(s, LAMBDA c : c # ".")), Pow10(frac)>>

RECURSIVE NatText(_)
NatText(n) ==
    IF n < 10 THEN <<DigitChars[n + 1]>>
    ELSE NatText(n \div 10) \o <<DigitChars[(n % 10) + 1]>>

\* f"{v:.2f}" of a value v >= 0: v rounded to hundredths.  (A value exactly
\* halfway between two hundredths, where the result depends on the binary
\* expansion of v, does not occur in the modelled labels.)
Format2f(v) ==
    LET q == (v[1] * 100) \div v[2]
        r == (v[1] * 100) % v[2]
        h == IF 2 * r > v[2] \/ (2 * r = v[2] /\ q % 2 = 1) THEN q + 1 ELSE q
    IN  NatText(h \div 100) \o <<".">> \o
            <<DigitChars[((h \div 10) % 10) + 1], DigitChars[(h % 10) + 1]>>

\* --------------------------------------------------- numbers of the cells
\* A number is the fraction <<numerator, denominator>>, denominator > 0.
NumLess(a, b) == a[1] * b[2] < b[1] * a[2]

NumEq(a, b) == a[1] * b[2] = b[1] * a[2]

\* math.floor and math.ceil
Floor(v) == v[1] \div v[2]

Ceil(v) == -((-v[1]) \div v[2])

\* min(values) and max(values) of a non-empty list: the first smallest, the
\* first largest
MinValue(values) ==
    values[CHOOSE k \in DOMAIN values :
               /\ \A j \in DOMAIN values : ~NumLess(values[j], values[k])
               /\ \A j \in 1..(k - 1) : NumLess(values[k], values[j])]

MaxValue(values) ==
    values[CHOOSE k \in DOMAIN values :
               /\ \A j \in DOMAIN values : ~NumLess(values[k], values[j])
               /\ \A j \in 1..(k - 1) : NumLess(values[j], values[k])]

\* ------------------------------------------------------- chart inputs
MaxChartMeas == 3
MaxDataRows == 2

\* "freq=1.00GHz X", "freq=2.00GHz Y", "freq=2.00GHz Z", "freq=2.40GHz",
\* "X GHz"
Name_1_00_X == FREQ_EQ \o <<"1", ".", "0", "0">> \o GHZ \o <<" ", "X">>
Name_2_00_Y == FREQ_EQ \o <<"2", ".", "0", "0">> \o GHZ \o <<" ", "Y">>
Name_2_00_Z == FREQ_EQ \o <<"2", ".", "0", "0">> \o GHZ \o <<" ", "Z">>
Name_2_40 == FREQ_EQ \o <<"2", ".", "4", "0">> \o GHZ
Name_X_GHz == <<"X", " ">> \o GHZ

\* Measurement column labels of a classified dataset: the five above and
\* "freq=2.406GHz", "freq=.5GHz", "freq=..GHz", "5 GHz", "ch=1".
ChartMeasNames ==
    { Name_1_00_X, Name_2_00_Y, Name_2_00_Z, Name_2_40, Name_X_GHz,
      FREQ_EQ \o <<"2", ".", "4", "0", "6">> \o GHZ,
      FREQ_EQ \o <<".", "5">> \o GHZ,
      FREQ_EQ \o <<".", ".">> \o GHZ,
      <<"5", " ">> \o GHZ,
      <<"c", "h", "=", "1">> }

RangeMeasNames == { Name_1_00_X, Name_2_00_Y, Name_2_00_Z, Name_2_40 }

\* the values of measurement cells: -1.5, 1, 5
CellValues == { <<-3, 2>>, <<1, 1>>, <<5, 1>> }

\* the cell of a metadata column
MetaCell == <<"m">>

\* the dataset with the 15 metadata columns, the measurement columns meas
\* and the measurement cells cells[r][k] of row r
ChartTable(meas, cells) ==
    [columns |-> MetaColumns \o meas,
     rows |-> [r \in DOMAIN cells |-> [c \in 1..InfoColumns |-> MetaCell] \o cells[r]]]

\* datasets of every combination of labels, one row, every cell 1
LabelDatasets ==
    { ChartTable(meas, << [k \in DOMAIN meas |-> <<1, 1>>] >>) :
          meas \in DistinctSeqs(ChartMeasNames, MaxChartMeas) }

\* datasets in which row r carries the value vals[r] in every measurement
\* column, except in the columns of missing (none, one column or all of
\* them), which are empty
RangeDatasets ==
    UNION { { ChartTable(meas,
                  [r \in DOMAIN vals |->
                      [k \in DOMAIN meas |-> IF k \in missing THEN NaN ELSE vals[r]]]) :
                  vals \in SeqsUpTo(CellValues, MaxDataRows),
                  missing \in {{}, DOMAIN meas} \cup {{k} : k \in DOMAIN meas} } :
            meas \in DistinctSeqs(RangeMeasNames, MaxChartMeas) }

ChartDatasets == LabelDatasets \cup RangeDatasets

\* ----------------------------------------------------- BaseFrequencyChart
StartIndex == 16
DefaultMargin == 2

\* the new label of a column after the 15 metadata columns
RenameColumn(col) ==
    IF FreqTokenStart(col) > 0 THEN FreqTokenGroup(col) \o GHZ ELSE col

\* new_columns of _process_data
NewColumns(cols) ==
    LET info_columns == MinOf(InfoColumns, Len(cols))
    IN  [k \in DOMAIN cols |-> IF k <= info_columns THEN cols[k] ELSE RenameColumn(cols[k])]

\* [col for col in self.df.columns[start_index:] if 'GHz' in col]
FrequencyColumns(cols) ==
    SelectSeq(SubSeq(cols, StartIndex + 1, Len(cols)), LAMBDA col : Contains(GHZ, col))

\* a label loop whose last fallback appends the column label itself
FrequencyLabel_Raw(col) ==
    IF GHzNumberStart(col) > 0
    THEN LET freq_val == FloatOf(GHzNumberGroup(col))
         IN  [value |-> freq_val, label |-> Format2f(freq_val)]
    ELSE LET freq_str == Strip(ReplaceGHz(col))
         IN  IF IsFloatText(freq_str)
             THEN [value |-> FloatOf(freq_str), label |-> Format2f(FloatOf(freq_str))]
             ELSE [value |-> NaN, label |-> col]

\* one iteration of _generate_frequency_chart: freq_val (NaN where none is
\* computed) and the label appended for col
FrequencyLabel(col) ==
    IF GHzNumberStart(col) > 0
    THEN LET freq_val == FloatOf(GHzNumberGroup(col))
         IN  [value |-> freq_val, label |-> Format2f(freq_val)]
    ELSE LET freq_str == Strip(ReplaceGHz(col))
         IN  IF IsFloatText(freq_str)
             THEN [value |-> FloatOf(freq_str), label |-> Format2f(FloatOf(freq_str))]
             ELSE [value |-> NaN, label |-> freq_str]

\* self.df[col] is a Series when one column carries the label col, and a
\* DataFrame, which has no tolist(), when several do
IsSeries(d, col) == Len(PositionsOf(d.columns, col, 1)) = 1

\* self.df[col].dropna().tolist() of a Series
ValidValues(d, col) ==
    LET pos == PositionsOf(d.columns, col, 1)[1]
    IN  DropNa([r \in DOMAIN d.rows |-> d.rows[r][pos]])

\* all_y_values
RECURSIVE AllYValues(_, _)
AllYValues(d, cols) ==
    IF cols = <<>> THEN <<>>
    ELSE ValidValues(d, Head(cols)) \o AllYValues(d, Tail(cols))

\* tiers whose limits are exclusive
IntervalOf_Exclusive(y_range) ==
    IF y_range < 5 THEN <<1, 2>>
    ELSE IF y_range < 10 THEN <<1, 1>>
    ELSE <<Ceil(<<y_range, 10>>), 1>>

\* the three tiers of _calculate_intervals
IntervalOf(y_range) ==
    IF y_range <= 5 THEN <<1, 2>>
    ELSE IF y_range <= 10 THEN <<1, 1>>
    ELSE <<Ceil(<<y_range, 10>>), 1>>

InitChart ==
    /\ ExtractIdle
    /\ TraceIdle
    /\ MainIdle
    /\ self_df \in ChartDatasets
    /\ source_columns = self_df.columns
    /\ frequencies = <<>>
    /\ frequency_labels = <<>>
    /\ frequency_values = <<>>
    /\ y_min = NaN
    /\ y_max = NaN
    /\ y_axis_min = 0
    /\ y_axis_max = 0
    /\ interval = NaN
    /\ step = "process_data"
    /\ error = "none"

ProcessData ==
    /\ step = "process_data"
    /\ self_df' = [self_df EXCEPT !.columns = NewColumns(self_df.columns)]
    /\ step' = "extract_columns"
    /\ UNCHANGED <<source_columns, frequencies, frequency_labels, frequency_values,
                   y_min, y_max, y_axis_min, y_axis_max, interval, error, extract_vars,
                   trace_vars, main_vars>>

ExtractFrequencyColumns ==
    /\ step = "extract_columns"
    /\ frequencies' = FrequencyColumns(self_df.columns)
    /\ step' = "generate_labels"
    /\ UNCHANGED <<source_columns, self_df, frequency_labels, frequency_values,
                   y_min, y_max, y_axis_min, y_axis_max, interval, error, extract_vars,
                   trace_vars, main_vars>>

GenerateFrequencyChart ==
    /\ step = "generate_labels"
    /\ frequency_labels' = [k \in DOMAIN frequencies |-> FrequencyLabel(frequencies[k]).label]
    /\ frequency_values' = [k \in DOMAIN frequencies |-> FrequencyLabel(frequencies[k]).value]
    /\ step' = "range"
    /\ UNCHANGED <<source_columns, self_df, frequencies,
                   y_min, y_max, y_axis_min, y_axis_max, interval, error, extract_vars,
                   trace_vars, main_vars>>

\* a range computation that puts the axis bounds at floor(min) and ceil(max)
CalculateYAxisRange_NoMargin ==
    /\ step = "range"
    /\ IF \E k \in DOMAIN frequencies : ~IsSeries(self_df, frequencies[k])
       THEN /\ step' = "error"
            /\ error' = "AttributeError"
            /\ UNCHANGED <<y_min, y_max, y_axis_min, y_axis_max>>
       ELSE LET all_y_values == AllYValues(self_df, frequencies)
                lo == IF all_y_values = <<>> THEN <<0, 1>> ELSE MinValue(all_y_values)
                hi == IF all_y_values = <<>> THEN <<1, 1>> ELSE MaxValue(all_y_values)
            IN  /\ y_min' = lo
                /\ y_max' = hi
                /\ y_axis_min' = Floor(lo)
                /\ y_axis_max' = Ceil(hi)
                /\ step' = "intervals"
                /\ UNCHANGED error
    /\ UNCHANGED <<source_columns, self_df, frequencies, frequency_labels,
                   frequency_values, interval, extract_vars,
                   trace_vars, main_vars>>

CalculateYAxisRange ==
    /\ step = "range"
    /\ IF \E k \in DOMAIN frequencies : ~IsSeries(self_df, frequencies[k])
       THEN /\ step' = "error"
            /\ error' = "AttributeError"
            /\ UNCHANGED <<y_min, y_max, y_axis_min, y_axis_max>>
       ELSE LET all_y_values == AllYValues(self_df, frequencies)
                lo == IF all_y_values = <<>> THEN <<0, 1>> ELSE MinValue(all_y_values)
                hi == IF all_y_values = <<>> THEN <<1, 1>> ELSE MaxValue(all_y_values)
            IN  /\ y_min' = lo
                /\ y_max' = hi
                /\ y_axis_min' = Floor(lo) - DefaultMargin
                /\ y_axis_max' = Ceil(hi) + DefaultMargin
                /\ step' = "intervals"
                /\ UNCHANGED error
    /\ UNCHANGED <<source_columns, self_df, frequencies, frequency_labels,
                   frequency_values, interval, extract_vars,
                   trace_vars, main_vars>>

CalculateIntervals ==
    /\ step = "intervals"
    /\ interval' = IntervalOf(y_axis_max - y_axis_min)
    /\ step' = "ready"
    /\ UNCHANGED <<source_columns, self_df, frequencies, frequency_labels,
                   frequency_values, y_min, y_max, y_axis_min, y_axis_max, error,
                   extract_vars, trace_vars, main_vars>>

NextChart ==
    \/ ProcessData
    \/ ExtractFrequencyColumns
    \/ GenerateFrequencyChart
    \/ CalculateYAxisRange
    \/ CalculateIntervals

SpecChart == InitChart /\ [][NextChart]_vars

\* ------------------------------------------------- inputs of the chart scripts
MaxTraceRows == 5
MaxCharts == 2

\* the position (counted from 0) of the CONFIG column and the index of the
\* first row the limit-bearing loops visit
ConfigColumn == 12
FirstDataRow == 3

\* the group values of the rows: "a" and "a(2)"
GroupValues == { <<"a">>, <<"a", "(", "2", ")">> }

\* the two column layouts of the datasets: three frequency columns, of which
\* the last two are axis columns, and one frequency column, which is none
TraceMeas == <<Name_1_00_X, Name_2_00_Y, Name_2_40>>

NoAxisMeas == <<Name_1_00_X>>

\* the measurement cell of the r-th row and the k-th measurement column: 10
\* in the second row, -10 in the third, elsewhere r + k or nothing
TraceCell(r, k) ==
    IF r = 2 THEN <<10, 1>>
    ELSE IF r = 3 THEN <<-10, 1>>
    ELSE IF (r + k) % 3 = 0 THEN NaN
    ELSE <<r + k, 1>>

\* the dataset whose r-th row carries the group value groups[r]
TraceTable(meas, groups) ==
    [columns |-> MetaColumns \o meas,
     rows |-> [r \in DOMAIN groups |->
                  [c \in 1..InfoColumns |->
                      IF c = ConfigColumn + 1 THEN groups[r] ELSE MetaCell]
                  \o [k \in DOMAIN meas |-> TraceCell(r, k)]]]

\* a constructor call: BasicFrequencyChart(df, title) or
\* FrequencyChartWithLimits(df, title, upper_limit_row, lower_limit_row); a
\* basic chart has no limit rows (-1)
Request(class, upper, lower, d) ==
    [chart_class |-> class, upper_limit_row |-> upper, lower_limit_row |-> lower,
     df |-> d]

ChartVariants ==
    { <<"BasicFrequencyChart", -1, -1>>,
      <<"FrequencyChartWithLimits", 1, 2>>,
      <<"FrequencyChartWithLimits", 2, 4>> }

\* one chart over every sequence of group values
SingleBatches ==
    { << Request(v[1], v[2], v[3], TraceTable(TraceMeas, groups)) >> :
          v \in ChartVariants, groups \in SeqsUpTo(GroupValues, MaxTraceRows) }

\* one limit-bearing chart over a dataset without axis columns
NoAxisBatches ==
    { << Request("FrequencyChartWithLimits", 1, 2,
                 TraceTable(NoAxisMeas, [r \in 1..n |-> <<"a">>])) >> :
          n \in 0..MaxTraceRows }

\* the colours of create_traces
available_colors ==
    << "red", "blue", "green", "orange", "purple", "brown", "pink", "gray",
       "olive", "cyan", "magenta", "yellow", "black", "lime", "teal", "navy",
       "maroon", "olive", "indigo", "turquoise" >>

\* one limit-bearing chart with one more group among its unit rows than
\* there are colours: the groups "g1", "g2", ... and, in the last row, the
\* group of the first unit row once more
PaletteBatch ==
    LET n == Len(available_colors) + FirstDataRow + 2
    IN  << Request("FrequencyChartWithLimits", 1, 2,
                   TraceTable(TraceMeas,
                       [r \in 1..n |->
                           <<"g">> \o NatText(IF r = n THEN FirstDataRow + 1 ELSE r)])) >>

\* one limit-bearing chart with two groups fewer than there are colours, each
\* group in one unit row; the three leading rows carry the group of the first
\* unit row
NearPaletteBatch ==
    LET n == FirstDataRow + Len(available_colors) - 2
    IN  << Request("FrequencyChartWithLimits", 1, 2,
                   TraceTable(TraceMeas,
                       [r \in 1..n |->
                           <<"g">> \o NatText(IF r <= FirstDataRow THEN FirstDataRow + 1 ELSE r)])) >>

\* the charts of the batches of several charts: basic and limit-bearing, over
\* one row and over four rows of group "a"
SmallRequests ==
    { Request(v[1], v[2], v[3], TraceTable(TraceMeas, [r \in 1..n |-> <<"a">>])) :
          v \in { <<"BasicFrequencyChart", -1, -1>>, <<"FrequencyChartWithLimits", 1, 2>> },
          n \in {1, 4} }

SeveralBatches == {b \in SeqsUpTo(SmallRequests, MaxCharts) : Len(b) >= 2}

\* ------------------------------------------------------------ create_traces
\* str(self.df.iloc[i, 12]) of the row with index i (rows are counted from 0)
ConfigValue(d, i) == d.rows[i + 1][ConfigColumn + 1]

\* range(a, b)
RangeSeq(a, b) == [j \in 1..(IF b > a THEN b - a ELSE 0) |-> a + j - 1]

\* the row indices of config_numbers (serial_numbers): every row in
\* data_demo_combine.py, the rows from index 3 on in data_demo_combined.py
CountedRows(file, n) ==
    IF file = "data_demo_combined.py" THEN RangeSeq(FirstDataRow, n) ELSE RangeSeq(0, n)

ConfigNumbers(file, d) ==
    LET counted == CountedRows(file, Len(d.rows))
    IN  [j \in DOMAIN counted |-> ConfigValue(d, counted[j])]

\* Counter(list)
Counter(list) ==
    [g \in Range(list) |-> Cardinality({j \in DOMAIN list : list[j] = g})]

\* counter[g]: 0 for a key the counter does not hold
CounterGet(counter, g) == IF g \in DOMAIN counter THEN counter[g] ELSE 0

\* the orders in which a set can be iterated
IterationOrders(S) ==
    {s \in [1..Cardinality(S) -> S] : \A a, b \in DOMAIN s : a # b => s[a] # s[b]}

\* only FrequencyChartWithLimits of data_demo_combine.py walks the rows in
\* its colour pre-pass and in its series loop; the other three create_traces
\* iterate set(config_numbers) and then every row
WalksUnitRows(file, class) ==
    file = "data_demo_combine.py" /\ class = "FrequencyChartWithLimits"

\* range(3, len(self.df)) without the rows that "continue" skips
UnitRows(n, upper, lower) ==
    SelectSeq(RangeSeq(FirstDataRow, n), LAMBDA i : ~(i = upper \/ i = lower))

\* the group values the colour pre-pass visits, in order
PrePassItems(file, class, d, upper, lower, order) ==
    IF WalksUnitRows(file, class)
    THEN LET unit == UnitRows(Len(d.rows), upper, lower)
         IN  [j \in DOMAIN unit |-> ConfigValue(d, unit[j])]
    ELSE order

\* the rows for which the series loop builds a trace, in order
SeriesRows(file, class, n, upper, lower) ==
    IF WalksUnitRows(file, class) THEN UnitRows(n, upper, lower) ELSE RangeSeq(0, n)

\* config_val in config_color_mapping, config_color_mapping[config_val]
MappingHas(mapping, g) == \E k \in DOMAIN mapping : mapping[k].key = g

MappingGet(mapping, g) == mapping[CHOOSE k \in DOMAIN mapping : mapping[k].key = g].color

\* a palette index that stops at the last colour
NextColor_Clamped(index) ==
    available_colors[MinOf(index, Len(available_colors) - 1) + 1]

\* available_colors[color_index % len(available_colors)]
NextColor(index) == available_colors[(index % Len(available_colors)) + 1]

\* display_config (display_serial_number)
DisplayName(g, total_count) ==
    IF total_count > 1 THEN g \o <<"(">> \o NatText(total_count) \o <<")">> ELSE g

\* self.df.iloc[i][self.frequencies].tolist()
RowValues(d, i, freqs) ==
    LET pos == SelectPositions(d.columns, freqs)
    IN  [k \in DOMAIN pos |-> d.rows[i + 1][pos[k]]]

\* float(self.df.iloc[row][self.frequencies[0]])
LimitValue(d, row, freqs) == d.rows[row + 1][PositionsOf(d.columns, freqs[1], 1)[1]]

\* the trace of a limit line
LimitTrace(name, row, value, labels) ==
    [name |-> name, legendgroup |-> NaN, showlegend |-> TRUE, color |-> "red",
     mode |-> "lines", dash |-> "dash", x |-> labels,
     y |-> [k \in DOMAIN labels |-> value], row |-> row]

\* lines 152-168 (225-235): the counter, the empty mapping and, where the
\* pre-pass iterates a set, the order of that iteration
CountGroups ==
    /\ step = "create_traces"
    /\ LET config_numbers == ConfigNumbers(source_file, self_df)
       IN  /\ serial_total_count' = Counter(config_numbers)
           /\ set_order' \in IF WalksUnitRows(source_file, chart_class)
                             THEN {<<>>}
                             ELSE IterationOrders(Range(config_numbers))
    /\ traces' = <<>>
    /\ added_to_legend' = {}
    /\ config_color_mapping' = <<>>
    /\ color_index' = 0
    /\ loop_i' = 0
    /\ step' = "prepass"
    /\ UNCHANGED <<chart_class, upper_limit_row, lower_limit_row, error,
                   chart_data_vars, extract_vars, main_vars>>

\* one iteration of the colour pre-pass
AssignColor ==
    /\ step = "prepass"
    /\ LET items == PrePassItems(source_file, chart_class, self_df,
                                 upper_limit_row, lower_limit_row, set_order)
       IN  /\ loop_i < Len(items)
           /\ IF MappingHas(config_color_mapping, items[loop_i + 1])
              THEN UNCHANGED <<config_color_mapping, color_index>>
              ELSE /\ config_color_mapping' =
                          Append(config_color_mapping,
                                 [key |-> items[loop_i + 1], color |-> NextColor(color_index)])
                   /\ color_index' = color_index + 1
    /\ loop_i' = loop_i + 1
    /\ UNCHANGED <<chart_class, upper_limit_row, lower_limit_row, serial_total_count,
                   set_order, added_to_legend, traces, step, error,
                   chart_data_vars, extract_vars, main_vars>>

\* the colour pre-pass is exhausted
PrePassDone ==
    /\ step = "prepass"
    /\ loop_i >= Len(PrePassItems(source_file, chart_class, self_df,
                                  upper_limit_row, lower_limit_row, set_order))
    /\ loop_i' = 0
    /\ step' = "series"
    /\ UNCHANGED <<chart_class, upper_limit_row, lower_limit_row, serial_total_count,
                   set_order, config_color_mapping, color_index, added_to_legend,
                   traces, error, chart_data_vars, extract_vars, main_vars>>

\* one iteration of the series loop.  Where the hover loop runs over
\* display_names.items() its loop variable is color_index, which ends as 12.
BuildSeries ==
    /\ step = "series"
    /\ LET rows == SeriesRows(source_file, chart_class, Len(self_df.rows),
                              upper_limit_row, lower_limit_row)
       IN  /\ loop_i < Len(rows)
           /\ LET i == rows[loop_i + 1]
                  config_value == ConfigValue(self_df, i)
                  total_count == CounterGet(serial_total_count, config_value)
                  display_config == DisplayName(config_value, total_count)
              IN  IF ~MappingHas(config_color_mapping, config_value)
                  THEN /\ step' = "error"
                       /\ error' = "KeyError"
                       /\ UNCHANGED <<traces, added_to_legend, color_index, loop_i>>
                  ELSE /\ traces' = Append(traces,
                              [name |-> display_config,
                               legendgroup |-> config_value,
                               showlegend |-> display_config \notin added_to_legend,
                               color |-> MappingGet(config_color_mapping, config_value),
                               mode |-> "lines+markers", dash |-> "solid",
                               x |-> frequency_labels,
                               y |-> RowValues(self_df, i, frequencies),
                               row |-> i])
                       /\ added_to_legend' = added_to_legend \cup {display_config}
                       /\ color_index' = IF WalksUnitRows(source_file, chart_class)
                                         THEN color_index ELSE ConfigColumn
                       /\ loop_i' = loop_i + 1
                       /\ UNCHANGED <<step, error>>
    /\ UNCHANGED <<chart_class, upper_limit_row, lower_limit_row, serial_total_count,
                   set_order, config_color_mapping, chart_data_vars, extract_vars,
                   main_vars>>

\* the series loop is exhausted
SeriesDone ==
    /\ step = "series"
    /\ loop_i >= Len(SeriesRows(source_file, chart_class, Len(self_df.rows),
                                upper_limit_row, lower_limit_row))
    /\ step' = IF chart_class = "FrequencyChartWithLimits" THEN "limit_lines" ELSE "traces_done"
    /\ UNCHANGED <<chart_class, upper_limit_row, lower_limit_row, serial_total_count,
                   set_order, config_color_mapping, color_index, added_to_legend,
                   traces, loop_i, error, chart_data_vars, extract_vars, main_vars>>

\* _add_limit_lines
AddLimitLines ==
    /\ step = "limit_lines"
    /\ IF Len(frequencies) > 0
       THEN IF upper_limit_row >= Len(self_df.rows) \/ lower_limit_row >= Len(self_df.rows)
            THEN /\ step' = "error"
                 /\ error' = "IndexError"
                 /\ UNCHANGED traces
            ELSE LET upper_limit_value == LimitValue(self_df, upper_limit_row, frequencies)
                     lower_limit_value == LimitValue(self_df, lower_limit_row, frequencies)
                 IN  /\ traces' = traces \o
                            << LimitTrace(<<"Upper Limit">>, upper_limit_row,
                                          upper_limit_value, frequency_labels),
                               LimitTrace(<<"Lower Limit">>, lower_limit_row,
                                          lower_limit_value, frequency_labels) >>
                     /\ step' = "traces_done"
                     /\ UNCHANGED error
       ELSE /\ step' = "traces_done"
            /\ UNCHANGED <<traces, error>>
    /\ UNCHANGED <<chart_class, upper_limit_row, lower_limit_row, serial_total_count,
                   set_order, config_color_mapping, color_index, added_to_legend,
                   loop_i, chart_data_vars, extract_vars, main_vars>>

\* ------------------------------------------------------------------ __main__
\* the chart object at the end of __init__
ChartObject ==
    [chart_class |-> chart_class, upper_limit_row |-> upper_limit_row,
     lower_limit_row |-> lower_limit_row, source_columns |-> source_columns,
     df |-> self_df, frequencies |-> frequencies,
     frequency_labels |-> frequency_labels, frequency_values |-> frequency_values,
     y_min |-> y_min, y_max |-> y_max, y_axis_min |-> y_axis_min,
     y_axis_max |-> y_axis_max, interval |-> interval]

\* create_layout and go.Figure(data=self.traces, layout=self.layout)
Figure ==
    [data |-> traces,
     layout |-> [tickvals |-> frequency_labels,
                 range |-> <<y_axis_min, y_axis_max>>,
                 dtick |-> interval]]

\* control is back in __main__: no chart method is running
BackInMain ==
    /\ source_columns' = <<>>
    /\ self_df' = EmptyTable
    /\ frequencies' = <<>>
    /\ frequency_labels' = <<>>
    /\ frequency_values' = <<>>
    /\ y_min' = NaN
    /\ y_max' = NaN
    /\ y_axis_min' = 0
    /\ y_axis_max' = 0
    /\ interval' = NaN
    /\ step' = "idle"
    /\ error' = "none"
    /\ chart_class' = "none"
    /\ upper_limit_row' = -1
    /\ lower_limit_row' = -1
    /\ serial_total_count' = <<>>
    /\ set_order' = <<>>
    /\ config_color_mapping' = <<>>
    /\ color_index' = 0
    /\ added_to_legend' = {}
    /\ traces' = <<>>
    /\ loop_i' = 0

InitMain ==
    /\ ExtractIdle
    /\ ChartIdle
    /\ TraceIdle
    /\ \/ /\ source_file = "data_demo_combine.py"
          /\ batch \in SingleBatches \cup NoAxisBatches \cup {PaletteBatch}
                           \cup {NearPaletteBatch} \cup SeveralBatches
       \/ /\ source_file = "data_demo_combined.py"
          /\ batch \in SingleBatches
    /\ charts = <<>>
    /\ figs = <<>>
    /\ main_pc = "construct"
    /\ chart_k = 1
    /\ run = 1
    /\ first_run_figs = <<>>

\* lines 476-484: the next constructor call enters __init__
ConstructChart ==
    /\ main_pc = "construct"
    /\ step = "idle"
    /\ chart_k <= Len(batch)
    /\ chart_class' = batch[chart_k].chart_class
    /\ upper_limit_row' = batch[chart_k].upper_limit_row
    /\ lower_limit_row' = batch[chart_k].lower_limit_row
    /\ self_df' = batch[chart_k].df
    /\ source_columns' = batch[chart_k].df.columns
    /\ step' = "process_data"
    /\ UNCHANGED <<frequencies, frequency_labels, frequency_values, y_min, y_max,
                   y_axis_min, y_axis_max, interval, error, serial_total_count,
                   set_order, config_color_mapping, color_index, added_to_legend,
                   traces, loop_i, extract_vars, main_vars>>

\* the constructor returns the chart object
ChartConstructed ==
    /\ main_pc = "construct"
    /\ step = "ready"
    /\ charts' = Append(charts, ChartObject)
    /\ chart_k' = chart_k + 1
    /\ BackInMain
    /\ UNCHANGED <<source_file, batch, figs, main_pc, run, first_run_figs, extract_vars>>

\* every chart is constructed: lines 487-495 follow
ConstructDone ==
    /\ main_pc = "construct"
    /\ step = "idle"
    /\ chart_k > Len(batch)
    /\ main_pc' = "generate"
    /\ chart_k' = 1
    /\ UNCHANGED <<source_file, batch, charts, figs, run, first_run_figs,
                   chart_vars, trace_vars, extract_vars>>

\* lines 487-495: the next generate_chart call enters create_traces
GenerateChart ==
    /\ main_pc = "generate"
    /\ step = "idle"
    /\ chart_k <= Len(charts)
    /\ LET chart == charts[chart_k]
       IN  /\ chart_class' = chart.chart_class
           /\ upper_limit_row' = chart.upper_limit_row
           /\ lower_limit_row' = chart.lower_limit_row
           /\ source_columns' = chart.source_columns
           /\ self_df' = chart.df
           /\ frequencies' = chart.frequencies
           /\ frequency_labels' = chart.frequency_labels
           /\ frequency_values' = chart.frequency_values
           /\ y_min' = chart.y_min
           /\ y_max' = chart.y_max
           /\ y_axis_min' = chart.y_axis_min
           /\ y_axis_max' = chart.y_axis_max
           /\ interval' = chart.interval
    /\ step' = "create_traces"
    /\ UNCHANGED <<error, serial_total_count, set_order, config_color_mapping,
                   color_index, added_to_legend, traces, loop_i, extract_vars,
                   main_vars>>

\* generate_chart returns the figure
FigureBuilt ==
    /\ main_pc = "generate"
    /\ step = "traces_done"
    /\ figs' = Append(figs, Figure)
    /\ chart_k' = chart_k + 1
    /\ BackInMain
    /\ UNCHANGED <<source_file, batch, charts, main_pc, run, first_run_figs, extract_vars>>

\* lines 498-510: every figure is generated and the dashboard is saved
SaveDashboard ==
    /\ main_pc = "generate"
    /\ step = "idle"
    /\ chart_k > Len(charts)
    /\ main_pc' = "done"
    /\ UNCHANGED <<source_file, batch, charts, figs, chart_k, run, first_run_figs,
                   chart_vars, trace_vars, extract_vars>>

\* __main__ has no try: an exception of a constructor or of generate_chart
\* ends the script
UncaughtException ==
    /\ main_pc \in {"construct", "generate"}
    /\ step = "error"
    /\ main_pc' = "aborted"
    /\ UNCHANGED <<source_file, batch, charts, figs, chart_k, run, first_run_figs,
                   chart_vars, trace_vars, extract_vars>>

\* the script is executed once more on the same input, in a new process
RunAgain ==
    /\ main_pc = "done"
    /\ run = 1
    /\ run' = 2
    /\ first_run_figs' = figs
    /\ figs' = <<>>
    /\ charts' = <<>>
    /\ main_pc' = "construct"
    /\ chart_k' = 1
    /\ UNCHANGED <<source_file, batch, chart_vars, trace_vars, extract_vars>>

NextMain ==
    \/ ConstructChart
    \/ ProcessData
    \/ ExtractFrequencyColumns
    \/ GenerateFrequencyChart
    \/ CalculateYAxisRange
    \/ CalculateIntervals
    \/ ChartConstructed
    \/ ConstructDone
    \/ GenerateChart
    \/ CountGroups
    \/ AssignColor
    \/ PrePassDone
    \/ BuildSeries
    \/ SeriesDone
    \/ AddLimitLines
    \/ FigureBuilt
    \/ SaveDashboard
    \/ UncaughtException
    \/ RunAgain

SpecMain == InitMain /\ [][NextMain]_vars

\* ------------------------------------------------- claims on SpecExtract
\* re.search finds the rule's pattern somewhere in the column label
RuleMatches(rule, col) == RegexValid(rule) /\ RegexSearch(rule, col)

\* the rule at position i of the rule list matches at least one column
RuleHasMatch(i) == \E c \in DOMAIN df.columns : RuleMatches(table_header_3[i], df.columns[c])

\* C1: the datasets are written in rule-list order, restricted to the rules
\* that matched at least one column: a rule without a match writes nothing,
\* and a dataset of an earlier rule is never written after one of a later rule.
C1_OutputFollowsRuleOrder ==
    /\ \A a, b \in DOMAIN emitted : a < b => emitted[a].i < emitted[b].i
    /\ \A k \in DOMAIN emitted : RuleHasMatch(emitted[k].i)
    /\ pc = "done" =>
           \A i \in DOMAIN table_header_3 :
               RuleHasMatch(i) => \E k \in DOMAIN emitted : emitted[k].i = i

\* a finished run that wrote two datasets and skipped a rule without a match
C1_Witness ==
    /\ pc = "done"
    /\ Len(emitted) >= 2
    /\ \E i \in DOMAIN table_header_3 :
           ~RuleHasMatch(i) /\ \A k \in DOMAIN emitted : emitted[k].i # i

\* the classification loop of lines 33-44 run over a whole rule list
RECURSIVE ClassifyAll(_, _, _)
ClassifyAll(rules, cols, acc) ==
    IF rules = <<>> THEN acc
    ELSE LET m == MatchedColumns(Head(rules), cols)
         IN  ClassifyAll(Tail(rules), cols,
                 IF StoresDataset(m) THEN (Head(rules) :> m) @@ acc ELSE acc)

\* C2: a rule whose pattern does not compile never aborts classification: it
\* yields no dataset, and the other rules get exactly the datasets that the
\* rule list without the invalid rules yields.
C2_InvalidPatternSkipped ==
    /\ pc # "aborted"
    /\ pc \in {"save", "done"} =>
           /\ \A rule \in DOMAIN classified_data : RegexValid(rule)
           /\ \A k \in DOMAIN emitted : RegexValid(emitted[k].rule)
           /\ classified_data =
                  ClassifyAll(SelectSeq(table_header_3, RegexValid), df.columns, <<>>)

\* a finished run in which an invalid rule precedes a rule that wrote a dataset
C2_Witness ==
    /\ pc = "done"
    /\ \E i \in DOMAIN table_header_3, k \in DOMAIN emitted :
           /\ ~RegexValid(table_header_3[i])
           /\ table_header_3[i] \in reported
           /\ i < emitted[k].i

\* the configuration rows that carry a pattern, in row order
PatternRows ==
    SelectSeq([k \in DOMAIN config_rows |-> k], LAMBDA k : config_rows[k].pat # NaN)

\* C3: every dataset is written under the output name of its rule's own
\* configuration row, and under the placeholder name when that row has none.
C3_NameOfOwnRow ==
    \A k \in DOMAIN emitted :
        LET row == config_rows[PatternRows[emitted[k].i]]
        IN  emitted[k].filename = IF row.name # NaN THEN row.name ELSE <<"result">>

\* C4: after the run there is one output file per rule that matched at least
\* one column, and no two rules wrote the same file.
C4_OneFilePerDataset ==
    pc = "done" =>
        /\ Cardinality(DOMAIN files) =
               Cardinality({i \in DOMAIN table_header_3 : RuleHasMatch(i)})
        /\ \A a, b \in DOMAIN emitted :
               a # b => emitted[a].filename # emitted[b].filename

\* the source positions a dataset of the rule projects: the first 15, then
\* every matching column in table order
ProjectedPositions(rule) ==
    [k \in 1..InfoColumns |-> k] \o
        SelectSeq([c \in DOMAIN df.columns |-> c],
                  LAMBDA c : RuleMatches(rule, df.columns[c]))

\* C5: every written dataset is the source table projected onto the first 15
\* columns followed by exactly the columns the rule's pattern matches, in
\* table order, with the rows of the source table in the same order.
C5_DatasetIsProjection ==
    \A k \in DOMAIN emitted :
        LET data == emitted[k].data
            pos == ProjectedPositions(emitted[k].rule)
        IN  /\ data.columns = [j \in DOMAIN pos |-> df.columns[pos[j]]]
            /\ Len(data.rows) = Len(df.rows)
            /\ \A r \in DOMAIN df.rows :
                   data.rows[r] = [j \in DOMAIN pos |-> df.rows[r][pos[j]]]

\* a written dataset with two rows and two matched columns
C5_Witness ==
    \E k \in DOMAIN emitted :
        /\ Len(emitted[k].data.rows) = 2
        /\ Len(emitted[k].data.columns) >= InfoColumns + 2

\* C6: the columns appended after the 15 metadata columns are never metadata
\* columns, so no source column occurs twice in a dataset.
C6_MatchedAreMeasurementColumns ==
    \A k \in DOMAIN emitted :
        LET cols == emitted[k].data.columns
        IN  /\ \A j \in DOMAIN cols, m \in 1..InfoColumns :
                   j > InfoColumns => cols[j] # df.columns[m]
            /\ \A a, b \in DOMAIN cols : a # b => cols[a] # cols[b]

\* --------------------------------------------------- claims on SpecChart
\* the labels have been generated
LabelsDone == step \in {"range", "intervals", "ready", "error"}

\* the positions of the measurement columns whose source label carries a
\* freq=<number>GHz token, in column order
FreqTokenPositions ==
    SelectSeq([p \in DOMAIN source_columns |-> p],
              LAMBDA p : p > InfoColumns /\ FreqTokenStart(source_columns[p]) > 0)

\* the positions of the axis columns: the columns of self.frequencies
AxisPositions ==
    SelectSeq([p \in DOMAIN self_df.columns |-> p],
              LAMBDA p : p > StartIndex /\ Contains(GHZ, self_df.columns[p]))

\* a is b with some entries left out
RECURSIVE IsSubSeq(_, _)
IsSubSeq(a, b) ==
    IF a = <<>> THEN TRUE
    ELSE IF b = <<>> THEN FALSE
    ELSE IF Head(a) = Head(b) THEN IsSubSeq(Tail(a), Tail(b))
    ELSE IsSubSeq(a, Tail(b))

\* C7: every measurement column (every column after the 15 metadata columns)
\* that carries a freq=<number>GHz token becomes an axis column, in column
\* order, the first measurement column included; the dataset A..O,
\* "freq=1.00GHz X", "freq=2.00GHz Y" gets the axis labels "1.00", "2.00".
C7_EveryFreqColumnIsAxisColumn ==
    LabelsDone =>
        /\ IsSubSeq(FreqTokenPositions, AxisPositions)
        /\ Len(frequencies) >= Len(FreqTokenPositions)
        /\ source_columns = MetaColumns \o <<Name_1_00_X, Name_2_00_Y>> =>
               frequency_labels = << <<"1", ".", "0", "0">>, <<"2", ".", "0", "0">> >>

\* C8: for every axis column whose label carries a token freq=<number>GHz,
\* the extracted value is <number> and the label is <number> with exactly
\* two decimals; there is one label per axis column, in the same order.
C8_LabelIsTokenValue ==
    LabelsDone =>
        /\ Len(frequency_labels) = Len(frequencies)
        /\ Len(frequencies) = Len(AxisPositions)
        /\ \A k \in DOMAIN frequencies :
               LET src == source_columns[AxisPositions[k]]
               IN  (FreqTokenStart(src) > 0 /\ IsFloatText(FreqTokenGroup(src))) =>
                       /\ frequency_values[k] # NaN
                       /\ NumEq(frequency_values[k], FloatOf(FreqTokenGroup(src)))
                       /\ frequency_labels[k] = Format2f(FloatOf(FreqTokenGroup(src)))

\* neither the number regex nor the cast of the unit-stripped text succeeds
NoNumberIn(col) ==
    GHzNumberStart(col) = 0 /\ ~IsFloatText(Strip(ReplaceGHz(col)))

PoolIsEmpty ==
    \A p \in Range(AxisPositions), r \in DOMAIN self_df.rows : self_df.rows[r][p] = NaN

\* C10: when no frequency column holds a non-missing value (or there is no
\* frequency column), the range computation ends without error with the
\* default range [0, 1].
C10_EmptyPoolDefaultRange ==
    (step \in {"intervals", "ready", "error"} /\ PoolIsEmpty) =>
        /\ step # "error"
        /\ NumEq(y_min, <<0, 1>>)
        /\ NumEq(y_max, <<1, 1>>)

\* the non-missing values of the axis columns
PoolValues ==
    {self_df.rows[r][p] : p \in Range(AxisPositions), r \in DOMAIN self_df.rows} \ {NaN}

\* the smallest and the largest value of a non-empty pool
PoolMin == CHOOSE v \in PoolValues : \A w \in PoolValues : ~NumLess(w, v)

PoolMax == CHOOSE v \in PoolValues : \A w \in PoolValues : ~NumLess(v, w)

\* the largest integer that is not above v, the smallest that is not below v
IntegerBelow(v) ==
    CHOOSE n \in -1000..1000 : n * v[2] <= v[1] /\ v[1] < (n + 1) * v[2]

IntegerAbove(v) ==
    CHOOSE n \in -1000..1000 : (n - 1) * v[2] < v[1] /\ v[1] <= n * v[2]

\* the tick interval the policy gives an axis of length span
PolicyInterval(span) ==
    IF span <= 5 THEN <<1, 2>>
    ELSE IF span <= 10 THEN <<1, 1>>
    ELSE <<IntegerAbove(<<span, 10>>), 1>>

ConstantDataset(v) ==
    /\ AxisPositions # <<>>
    /\ self_df.rows # <<>>
    /\ \A p \in Range(AxisPositions), r \in DOMAIN self_df.rows : self_df.rows[r][p] = v

\* C12: a dataset whose axis columns hold only the one value v gets the axis
\* bounds floor(v) - 2 and ceil(v) + 2 and the tick interval 0.5.
C12_ConstantValueRange ==
    \A v \in CellValues :
        (step \in {"ready", "error"} /\ ConstantDataset(v)) =>
            /\ step = "ready"
            /\ y_axis_min = IntegerBelow(v) - 2
            /\ y_axis_max = IntegerAbove(v) + 2
            /\ interval = <<1, 2>>

\* ---------------------------------------------------- claims on SpecMain
\* the traces of the unit rows among the traces of a chart
UnitTraces(data) == SelectSeq(data, LAMBDA t : t.mode = "lines+markers")

\* the traces of the limit lines
LimitTraces(data) == SelectSeq(data, LAMBDA t : t.mode = "lines")

\* the traces of the chart under construction and of every finished figure
AllTraceLists == {traces} \cup {figs[f].data : f \in DOMAIN figs}

\* C13: within one chart build all series of one group carry the same colour,
\* which is the colour the mapping holds for the group, and the k-th group
\* assigned (counting from 0) holds the palette colour k mod palette length.
C13_GroupColours ==
    /\ \A k \in DOMAIN config_color_mapping :
           /\ config_color_mapping[k].color =
                  available_colors[((k - 1) % Len(available_colors)) + 1]
           /\ \A j \in DOMAIN config_color_mapping :
                  j # k => config_color_mapping[j].key # config_color_mapping[k].key
    /\ \A t \in DOMAIN traces :
           traces[t].mode = "lines+markers" =>
               \E k \in DOMAIN config_color_mapping :
                   /\ config_color_mapping[k].key = traces[t].legendgroup
                   /\ config_color_mapping[k].color = traces[t].color
    /\ \A data \in AllTraceLists :
           \A a, b \in DOMAIN UnitTraces(data) :
               UnitTraces(data)[a].legendgroup = UnitTraces(data)[b].legendgroup =>
                   UnitTraces(data)[a].color = UnitTraces(data)[b].color

\* a finished build with more groups than colours: the group assigned after
\* the last palette colour holds the first colour again, and two series of
\* one group are drawn
C13_Witness ==
    /\ step = "traces_done"
    /\ Len(config_color_mapping) = Len(available_colors) + 1
    /\ config_color_mapping[Len(available_colors)].color = "turquoise"
    /\ config_color_mapping[Len(available_colors) + 1].color = "red"
    /\ \E a, b \in DOMAIN traces :
           /\ a # b
           /\ traces[a].mode = "lines+markers"
           /\ traces[b].mode = "lines+markers"
           /\ traces[a].legendgroup = traces[b].legendgroup
           /\ traces[a].color = traces[b].color

\* C14: two executions over the same datasets draw every series in the same
\* colour: the group-to-colour mapping of a chart is the same in both.
C14_ColoursReproducible ==
    run = 2 =>
        \A f \in DOMAIN figs :
            \A t \in DOMAIN figs[f].data :
                figs[f].data[t].color = first_run_figs[f].data[t].color

\* C15: in every built chart the series of the first row of each group is
\* shown in the legend and every later series of the group is not.
C15_LegendOncePerGroup ==
    \A f \in DOMAIN figs :
        LET unit == UnitTraces(figs[f].data)
        IN  \A j \in DOMAIN unit :
                unit[j].showlegend =
                    (\A h \in 1..(j - 1) : unit[h].legendgroup # unit[j].legendgroup)

\* the number of rows of the dataset d that carry the group value g
Occurrences(d, g) ==
    Cardinality({r \in DOMAIN d.rows : d.rows[r][ConfigColumn + 1] = g})

\* C16: the label of a series is "group(n)" when its group occurs n > 1 times
\* among all rows of the dataset, and the bare group value when it occurs
\* once.
C16_LabelCarriesCount ==
    \A f \in DOMAIN figs :
        LET unit == UnitTraces(figs[f].data)
        IN  \A j \in DOMAIN unit :
                LET g == unit[j].legendgroup
                    n == Occurrences(batch[f].df, g)
                IN  unit[j].name =
                        IF n > 1 THEN g \o <<"(">> \o NatText(n) \o <<")">> ELSE g

\* the chart at hand is a basic chart whose create_traces has ended
BasicChartEnded ==
    chart_class = "BasicFrequencyChart" /\ step \in {"traces_done", "error"}

\* C17: the basic chart builds one series per row of the dataset, in row
\* order; the y sequence of the series of a row holds the cells of the row in
\* the axis columns, in column order, a missing cell as a missing entry.
C17_OneSeriesPerRow ==
    BasicChartEnded =>
        /\ step = "traces_done"
        /\ Len(traces) = Len(self_df.rows)
        /\ \A r \in DOMAIN self_df.rows :
               /\ traces[r].row = r - 1
               /\ traces[r].y = [k \in DOMAIN AxisPositions |->
                                     self_df.rows[r][AxisPositions[k]]]

\* the chart at hand is a limit-bearing chart whose create_traces has ended
\* and whose dataset holds both limit rows
LimitChartEnded ==
    /\ chart_class = "FrequencyChartWithLimits"
    /\ step \in {"traces_done", "error"}
    /\ upper_limit_row < Len(self_df.rows)
    /\ lower_limit_row < Len(self_df.rows)

\* C18: a limit-bearing chart whose dataset holds both limit rows ends with
\* two limit series, whatever the number of unit rows: dashed, shown in the
\* legend, the first at the value of the upper limit row and the second at
\* the value of the lower limit row in the first axis column, at every axis
\* position.
C18_TwoLimitSeries ==
    LimitChartEnded =>
        /\ step = "traces_done"
        /\ LET limit == LimitTraces(traces)
           IN  /\ Len(limit) = 2
               /\ \A j \in DOMAIN limit :
                      /\ limit[j].dash = "dash"
                      /\ limit[j].showlegend
                      /\ Len(limit[j].y) = Len(frequency_labels)
               /\ AxisPositions # <<>>
               /\ \A k \in DOMAIN frequency_labels :
                      /\ limit[1].y[k] = self_df.rows[upper_limit_row + 1][AxisPositions[1]]
                      /\ limit[2].y[k] = self_df.rows[lower_limit_row + 1][AxisPositions[1]]

\* C19: in a limit-bearing chart the two limit rows get no unit series and
\* every other row of the dataset gets exactly one.
C19_AllButLimitRows ==
    (LimitChartEnded /\ step = "traces_done") =>
        LET unit == UnitTraces(traces)
        IN  /\ Len(unit) = Len(self_df.rows) - Cardinality({upper_limit_row, lower_limit_row})
            /\ \A j \in DOMAIN unit : unit[j].row \notin {upper_limit_row, lower_limit_row}
            /\ \A i \in 0..(Len(self_df.rows) - 1) :
                   i \notin {upper_limit_row, lower_limit_row} =>
                       Cardinality({j \in DOMAIN unit : unit[j].row = i}) = 1

\* the request is for a limit-bearing chart whose dataset lacks a limit row
LacksLimitRow(request) ==
    /\ request.chart_class = "FrequencyChartWithLimits"
    /\ \/ request.upper_limit_row >= Len(request.df.rows)
       \/ request.lower_limit_row >= Len(request.df.rows)

\* C20: a limit-bearing chart whose dataset lacks a limit row fails alone: the
\* script does not end on its error, it runs to the end, and at the end every
\* other chart of the batch is built and that chart is not.
C20_MissingLimitRowIsolated ==
    /\ ~(main_pc = "aborted" /\ error = "IndexError")
    /\ (main_pc = "done" /\ source_file = "data_demo_combine.py") =>
           Len(figs) = Cardinality({k \in DOMAIN batch : ~LacksLimitRow(batch[k])})

\* ------------------------------------------- claims on the dataset of a chart
\* __init__ stores the DataFrame it is handed (self.df = df, no copy): the
\* df of a chart object is the dataset of the constructor call itself, and
\* batch[k].df is that dataset as it was built.

\* C21: constructing a chart from a dataset, and generating the chart, leaves
\* the dataset's column names, column order and cell values unchanged: the
\* dataset of every constructed chart, and of the chart whose method is
\* running, equals the dataset as it was handed to the constructor.
C21_DatasetImmutable ==
    /\ \A k \in DOMAIN charts : charts[k].df = batch[k].df
    /\ step # "idle" /\ main_pc \in {"construct", "generate"}
           => self_df = batch[chart_k].df

\* ------------------------------------------- claims on the axis-range pool
\* the axis columns whose label was parsed to a number
NumericAxisColumns ==
    LET numeric == SelectSeq([k \in DOMAIN frequencies |-> k],
                             LAMBDA k : frequency_values[k] # NaN)
    IN  [j \in DOMAIN numeric |-> frequencies[numeric[j]]]

\* the non-missing values of the axis columns with a numeric label
NumericPoolValues == AllYValues(self_df, NumericAxisColumns)

\* C22: an axis column whose label could not be parsed to a number is left
\* out of the axis-range pool: the axis bounds and the tick interval are those
\* of the values of the axis columns with a numeric label alone.
C22_UnparsedColumnOutOfPool ==
    step \in {"intervals", "ready"} =>
        LET lo == IF NumericPoolValues = <<>> THEN <<0, 1>> ELSE MinValue(NumericPoolValues)
            hi == IF NumericPoolValues = <<>> THEN <<1, 1>> ELSE MaxValue(NumericPoolValues)
        IN  /\ y_axis_min = IntegerBelow(lo) - DefaultMargin
            /\ y_axis_max = IntegerAbove(hi) + DefaultMargin
            /\ step = "ready" =>
                   interval = PolicyInterval((IntegerAbove(hi) + DefaultMargin)
                                             - (IntegerBelow(lo) - DefaultMargin))

\* ------------------------------------------------------------ demo_visual.py
\* DataVisual.draw_chart of demo_visual.py builds the series and the colours
\* of one dataset in a single loop.  Its config_counts, config_colors and
\* config_shown are held in serial_total_count, config_color_mapping and
\* added_to_legend, its figure in traces.
MaxVisualRows == 3

\* y_data = self.df.iloc[5:, 15:]: the index of the first row with y values
VisualFirstRow == 5

VisualMeas == <<Name_1_00_X, Name_2_00_Y>>

\* a row from index 5 on: its group and whether its last cell is filled
VisualUnits == [group : GroupValues, complete : BOOLEAN]

\* the dataset with five leading rows and the rows units after them
VisualTable(units) ==
    [columns |-> MetaColumns \o VisualMeas,
     rows |-> [r \in 1..(VisualFirstRow + Len(units)) |->
                  [c \in 1..InfoColumns |->
                      IF c = ConfigColumn + 1 /\ r > VisualFirstRow
                      THEN units[r - VisualFirstRow].group ELSE MetaCell]
                  \o [k \in DOMAIN VisualMeas |->
                         IF r > VisualFirstRow /\ k = Len(VisualMeas)
                            /\ ~units[r - VisualFirstRow].complete
                         THEN NaN ELSE <<r + k, 1>>]]]

VisualDatasets == { VisualTable(units) : units \in SeqsUpTo(VisualUnits, MaxVisualRows) }

color_palette ==
    << "#1f77b4", "#ff7f0e", "#2ca02c", "#d62728", "#9467bd",
       "#8c564b", "#e377c2", "#7f7f7f", "#bcbd22", "#17becf" >>

\* the y cells of the row with index i of plot_data: pd.concat aligns y_data
\* on the row index, so a row before index 5 has no y value
PlotRow(d, i) ==
    [k \in 1..(Len(d.columns) - InfoColumns) |->
        IF i >= VisualFirstRow THEN d.rows[i + 1][InfoColumns + k] ELSE NaN]

\* not row[2:].isnull().any()
NoNullIn(d, i) == \A k \in DOMAIN PlotRow(d, i) : PlotRow(d, i)[k] # NaN

\* the indices of the rows draw_chart builds a series for
DrawnRows(d) == SelectSeq(RangeSeq(0, Len(d.rows)), LAMBDA i : NoNullIn(d, i))

\* self.df.iloc[row, 15:] drawn as a reference line
ReferenceTrace(name, d, row) ==
    [name |-> name, legendgroup |-> NaN, showlegend |-> FALSE, color |-> "red",
     mode |-> "lines", dash |-> "dash",
     y |-> [k \in 1..(Len(d.columns) - InfoColumns) |-> d.rows[row + 1][InfoColumns + k]],
     row |-> row]

InitVisual ==
    /\ ExtractIdle
    /\ self_df \in VisualDatasets
    /\ source_columns = self_df.columns
    /\ frequencies = <<>>
    /\ frequency_labels = <<>>
    /\ frequency_values = <<>>
    /\ y_min = NaN
    /\ y_max = NaN
    /\ y_axis_min = 0
    /\ y_axis_max = 0
    /\ interval = NaN
    /\ step = "draw_chart"
    /\ error = "none"
    /\ chart_class = "DataVisual"
    /\ upper_limit_row = 2
    /\ lower_limit_row = 3
    /\ serial_total_count = <<>>
    /\ set_order = <<>>
    /\ config_color_mapping = <<>>
    /\ color_index = 0
    /\ added_to_legend = {}
    /\ traces = <<>>
    /\ loop_i = 0
    /\ source_file = "demo_visual.py"
    /\ batch = <<>>
    /\ charts = <<>>
    /\ figs = <<>>
    /\ main_pc = "idle"
    /\ chart_k = 0
    /\ run = 0
    /\ first_run_figs = <<>>

\* lines 51-101: the reference lines, the counts of the rows without a
\* missing value and the empty colour table
DrawChartBegin ==
    /\ step = "draw_chart"
    /\ traces' =
           (IF Len(self_df.rows) > upper_limit_row
            THEN << ReferenceTrace(<<"u", "p", "p", "e", "r">>, self_df, upper_limit_row) >>
            ELSE <<>>)
           \o (IF Len(self_df.rows) > lower_limit_row
               THEN << ReferenceTrace(<<"l", "o", "w", "e", "r">>, self_df, lower_limit_row) >>
               ELSE <<>>)
    /\ LET drawn == DrawnRows(self_df)
       IN  serial_total_count' = Counter([j \in DOMAIN drawn |-> ConfigValue(self_df, drawn[j])])
    /\ config_color_mapping' = <<>>
    /\ added_to_legend' = {}
    /\ color_index' = 0
    /\ loop_i' = 0
    /\ step' = IF Len(self_df.rows) > 0 /\ Len(self_df.columns) > InfoColumns
               THEN "series" ELSE "traces_done"
    /\ UNCHANGED <<chart_class, upper_limit_row, lower_limit_row, set_order, error,
                   chart_data_vars, extract_vars, main_vars>>

\* lines 103-142: one iteration of the loop over plot_data.iterrows()
DrawChartRow ==
    /\ step = "series"
    /\ loop_i < Len(self_df.rows)
    /\ IF NoNullIn(self_df, loop_i)
       THEN LET config == ConfigValue(self_df, loop_i)
                config_colors ==
                    IF MappingHas(config_color_mapping, config)
                    THEN config_color_mapping
                    ELSE Append(config_color_mapping,
                                [key |-> config,
                                 color |-> color_palette[(color_index % Len(color_palette)) + 1]])
                legend_name == DisplayName(config, CounterGet(serial_total_count, config))
            IN  /\ config_color_mapping' = config_colors
                /\ color_index' = IF MappingHas(config_color_mapping, config)
                                  THEN color_index ELSE color_index + 1
                /\ added_to_legend' = added_to_legend \cup {config}
                /\ traces' = Append(traces,
                       [name |-> legend_name, legendgroup |-> config,
                        showlegend |-> config \notin added_to_legend,
                        color |-> MappingGet(config_colors, config),
                        mode |-> "lines+markers", dash |-> "solid",
                        y |-> PlotRow(self_df, loop_i), row |-> loop_i])
       ELSE UNCHANGED <<config_color_mapping, color_index, added_to_legend, traces>>
    /\ loop_i' = loop_i + 1
    /\ UNCHANGED <<chart_class, upper_limit_row, lower_limit_row, serial_total_count,
                   set_order, step, error, chart_data_vars, extract_vars, main_vars>>

\* the loop is exhausted: lines 144-166 lay the figure out and return it
DrawChartEnd ==
    /\ step = "series"
    /\ loop_i >= Len(self_df.rows)
    /\ step' = "traces_done"
    /\ UNCHANGED <<chart_class, upper_limit_row, lower_limit_row, serial_total_count,
                   set_order, config_color_mapping, color_index, added_to_legend,
                   traces, loop_i, error, chart_data_vars, extract_vars, main_vars>>

NextVisual ==
    \/ DrawChartBegin
    \/ DrawChartRow
    \/ DrawChartEnd

SpecVisual == InitVisual /\ [][NextVisual]_vars

\* ------------------------------------------- claims on the two passes
\* the indices of the rows a chart build draws a series for, in order
BuiltRows ==
    IF source_file = "demo_visual.py"
    THEN DrawnRows(self_df)
    ELSE SeriesRows(source_file, chart_class, Len(self_df.rows),
                    upper_limit_row, lower_limit_row)

\* the colour table holds one entry for the group of every row that is drawn
MappingComplete ==
    /\ \A j \in DOMAIN BuiltRows :
           MappingHas(config_color_mapping, ConfigValue(self_df, BuiltRows[j]))
    /\ \A a, b \in DOMAIN config_color_mapping :
           a # b => config_color_mapping[a].key # config_color_mapping[b].key

\* C23: in every chart build the group-to-colour table is completely filled,
\* one entry per distinct group, before the first series is built, and while
\* the series are being built no colour is assigned or changed.
C23_TwoPassesInOrder ==
    /\ [](step = "series" => MappingComplete)
    /\ [][step = "series" => config_color_mapping' = config_color_mapping]_vars

\* ------------------------------------------- claims on the palette
\* the group values of the dataset of the chart
DatasetGroups == { ConfigValue(self_df, r - 1) : r \in DOMAIN self_df.rows }

\* C24: whenever a chart has at most as many distinct group values as the
\* palette has entries (20), no two different groups have the same colour.
C24_DistinctGroupsDistinctColours ==
    Cardinality(DatasetGroups) <= Len(available_colors) =>
        \A a, b \in DOMAIN config_color_mapping :
            a # b => config_color_mapping[a].color # config_color_mapping[b].color

\* C25: whatever the dataset holds, the group of every row for which
\* create_traces builds a series is in the colour table of the pre-pass, and
\* the series loop never fails on a group without a colour.
C25_EverySeriesRowHasColour ==
    /\ error # "KeyError"
    /\ step = "series" =>
           \A j \in DOMAIN BuiltRows :
               MappingHas(config_color_mapping, ConfigValue(self_df, BuiltRows[j]))

\* ------------------------------------------- claims on the axis bounds
\* the value v lies strictly between the integers lo and hi
StrictlyWithin(v, lo, hi) == NumLess(<<lo, 1>>, v) /\ NumLess(v, <<hi, 1>>)

\* every plotted value of the traces data lies strictly between lo and hi
PlottedWithin(data, lo, hi) ==
    \A t \in DOMAIN data : \A k \in DOMAIN data[t].y :
        data[t].y[k] # NaN => StrictlyWithin(data[t].y[k], lo, hi)

\* the axis bounds of the chart at hand have been computed
BoundsComputed ==
    step \in {"intervals", "ready", "create_traces", "prepass", "series",
              "limit_lines", "traces_done"}

====
